---- MODULE Spec2Model ----
(***************************************************************************)
(* A model of the training scaffolding of mopa-rl:                         *)
(*   rl/trainer.py                 Trainer (train, _evaluate, evaluate,    *)
(*                                 _save_ckpt, _load_ckpt),                *)
(*                                 get_agent_by_name                       *)
(*   env/sawyer/sawyer_pick_place.py  SawyerPickPlaceEnv.compute_reward    *)
(*   config/sawyer.py              add_arguments, get_default_config       *)
(*                                                                         *)
(* Four specifications share the variables:                                *)
(*   Spec        Trainer.__init__ and Trainer.train() on every worker      *)
(*   SpecCkpt    _save_ckpt / _load_ckpt against the files of log_dir      *)
(*   SpecStop    _save_ckpt file by file, with the process stopping and    *)
(*               starting again                                            *)
(*   SpecEval    Trainer._evaluate as called by train() and by evaluate()  *)
(*   SpecSawyer  get_default_config and compute_reward                     *)
(*   SpecStep    SawyerPickPlaceEnv._step and _reset                       *)
(***************************************************************************)
EXTENDS Integers, Sequences, FiniteSets, TLC

VARIABLES
    config,          \* the argparse namespace the Trainer was built with
    runner,          \* self._runner: [env_step |-> whether info has "env_step"]
    disk,            \* files of config.log_dir: path -> content
    pc,              \* per worker: position in __init__ / train()
    err,             \* per worker: the exception that ended it, or None
    step,            \* per worker: local variable step of train()
    update_iter,     \* per worker: local variable update_iter of train()
    env_step,        \* per worker: local variable env_step of train()
    init_step,       \* per worker: local variable init_step of train()
    step_per_batch,  \* per worker: local variable step_per_batch of train()
    env_step_per_batch, \* per worker: local variable env_step_per_batch
    agent,           \* per worker: self._agent, [state, buffer]
    sent,            \* per worker: value handed to a pending mpi_sum, or None
    loaded,          \* per worker: what _load_ckpt returned to train()
    acLens,          \* per worker: len(rollout["ac"]) of every main-loop rollout
    trace,           \* per worker: calls made by the current main-loop iteration
    calls,           \* per worker: number of calls made so far, by kind
    ck,              \* SpecCkpt: the last _save_ckpt / _load_ckpt call, and
                     \* whether the agent was touched since
    ev,              \* SpecEval: the last _evaluate call
    sw               \* SpecSawyer: the last call on the Sawyer modules

vars == <<config, runner, disk, pc, err, step, update_iter, env_step, init_step,
          step_per_batch, env_step_per_batch, agent, sent, loaded, acLens,
          trace, calls, ck, ev, sw>>

trainVars == <<config, runner, pc, err, step, update_iter, env_step, init_step,
               step_per_batch, env_step_per_batch, sent, loaded, acLens,
               trace, calls>>

\* Python's None where the code holds an int or None (env_step, ckpt_num).
None == -1
\* No exception.
NoErr == "None"

(***************************************************************************)
(* Bounds of the model.                                                    *)
(***************************************************************************)
NumWorkers == 2          \* MPI world size when config.is_mpi
MaxGlobalStep == 3       \* largest config.max_global_step
MaxRolloutLen == 2       \* largest len(rollout["ac"]) the runner yields
MaxStartSteps == 2       \* largest config.start_steps
MaxInterval == 2         \* largest evaluate_interval / ckpt_interval
MaxSamples == 2          \* largest config.num_record_samples
MaxCkptNum == 2          \* SpecCkpt: largest ckpt_num saved
MaxSaves == 2            \* SpecCkpt: _save_ckpt calls explored
MaxAgentOps == 2         \* SpecCkpt: agent.train / store_episode calls explored
MaxEval == 3             \* SpecEval: largest config.num_eval
MaxPos == 20             \* SpecSawyer: positions 0..MaxPos, in units of 0.01
MaxJoint == 1            \* SpecStep: joint positions 0 or MaxJoint
MaxAc == 2               \* SpecStep: arm action entries -MaxAc, 1 or MaxAc
MaxAcScale == 2          \* SpecStep: _ac_scale 1 or MaxAcScale
MaxStepCalls == 2        \* SpecStep: _step calls explored

(***************************************************************************)
(* File names: "ckpt_%08d.pt" % ckpt_num and "replay_%08d.pkl" % ckpt_num. *)
(***************************************************************************)
RECURSIVE Digits(_)
Digits(n) == IF n < 10 THEN <<n>> ELSE Append(Digits(n \div 10), n % 10)

RECURSIVE ZeroPad(_, _)
ZeroPad(ds, width) ==
    IF Len(ds) >= width THEN ds ELSE ZeroPad(<<0>> \o ds, width)

Fmt08d(n) == ZeroPad(Digits(n), 8)

RECURSIVE ParseInt(_)
ParseInt(ds) ==
    IF ds = <<>> THEN 0
    ELSE 10 * ParseInt(SubSeq(ds, 1, Len(ds) - 1)) + ds[Len(ds)]

CkptPath(ckpt_num) == [kind |-> "ckpt", num |-> Fmt08d(ckpt_num)]
ReplayPath(ckpt_num) == [kind |-> "replay", num |-> Fmt08d(ckpt_num)]

WriteFile(d, path, content) ==
    [p \in DOMAIN d \cup {path} |-> IF p = path THEN content ELSE d[p]]

NoFiles == [p \in {} |-> None]

\* A file opened for writing and not yet written and closed.
Incomplete == [incomplete |-> TRUE]

(***************************************************************************)
(* The agent, as far as the trainer touches it: its state_dict (counted by  *)
(* the updates agent.train() applied) and its replay buffer (counted by    *)
(* the episodes agent.store_episode() added).                              *)
(***************************************************************************)
NewAgent == [state |-> 0, buffer |-> 0]
agent_train(ag) == [ag EXCEPT !.state = @ + 1]
store_episode(ag) == [ag EXCEPT !.buffer = @ + 1]

(***************************************************************************)
(* Trainer._save_ckpt: the checkpoint file first, then the replay file.    *)
(***************************************************************************)
SaveCkptFile(d, ag, ckpt_num, ui, es) ==
    WriteFile(d, CkptPath(ckpt_num),
              [step |-> ckpt_num, update_iter |-> ui, env_step |-> es,
               agent |-> ag.state])

SaveReplayFile(d, ag, ckpt_num) ==
    WriteFile(d, ReplayPath(ckpt_num), [replay |-> ag.buffer])

\* A _save_ckpt that writes no replay file.
_save_ckpt_noReplay(d, ag, ckpt_num, ui, es) ==
    SaveCkptFile(d, ag, ckpt_num, ui, es)

_save_ckpt(d, ag, ckpt_num, ui, es) ==
    SaveReplayFile(SaveCkptFile(d, ag, ckpt_num, ui, es), ag, ckpt_num)

(***************************************************************************)
(* util.pytorch.get_ckpt_path: the checkpoint asked for, or with ckpt_num  *)
(* None the most recent one (the largest number), or nothing.              *)
(***************************************************************************)
CkptFiles(d) == {p \in DOMAIN d : p.kind = "ckpt"}

get_ckpt_path(d, ckpt_num) ==
    IF ckpt_num = None
    THEN IF CkptFiles(d) = {}
         THEN [found |-> FALSE, raised |-> FALSE, ckpt_num |-> None]
         ELSE LET p == CHOOSE q \in CkptFiles(d) :
                           \A r \in CkptFiles(d) : ParseInt(r.num) <= ParseInt(q.num)
              IN [found |-> TRUE, raised |-> FALSE, ckpt_num |-> ParseInt(p.num)]
    ELSE IF CkptPath(ckpt_num) \in DOMAIN d
         THEN [found |-> TRUE, raised |-> FALSE, ckpt_num |-> ckpt_num]
         ELSE [found |-> FALSE, raised |-> TRUE, ckpt_num |-> None]

(***************************************************************************)
(* Trainer._load_ckpt: what it returns, the agent afterwards, and the      *)
(* exception when a file it opens is missing or incomplete.                *)
(***************************************************************************)
_load_ckpt(d, ag, is_train, ckpt_num) ==
    LET g == get_ckpt_path(d, ckpt_num) IN
    IF g.raised
    THEN [ret |-> <<None, None, None>>, agent |-> ag, err |-> "Exception"]
    ELSE IF g.found
    THEN IF d[CkptPath(g.ckpt_num)] = Incomplete
         THEN [ret |-> <<None, None, None>>, agent |-> ag, err |-> "EOFError"]
         ELSE
         LET ckpt == d[CkptPath(g.ckpt_num)]
             ag1 == [ag EXCEPT !.state = ckpt.agent]
         IN IF is_train
            THEN IF ReplayPath(g.ckpt_num) \notin DOMAIN d
                 THEN [ret |-> <<None, None, None>>, agent |-> ag1,
                       err |-> "FileNotFoundError"]
                 ELSE IF d[ReplayPath(g.ckpt_num)] = Incomplete
                 THEN [ret |-> <<None, None, None>>, agent |-> ag1,
                       err |-> "EOFError"]
                 ELSE [ret |-> <<ckpt.step, ckpt.update_iter, ckpt.env_step>>,
                       agent |-> [ag1 EXCEPT !.buffer =
                                      d[ReplayPath(g.ckpt_num)].replay],
                       err |-> NoErr]
            ELSE [ret |-> <<ckpt.step, ckpt.update_iter, ckpt.env_step>>,
                  agent |-> ag1, err |-> NoErr]
    ELSE [ret |-> <<0, 0, 0>>, agent |-> ag, err |-> NoErr]

(***************************************************************************)
(* Trainer._evaluate: the episodes its loop runs.  The loop variable i     *)
(* runs over range(num_record_samples); the body runs one episode and      *)
(* breaks when idx is given.                                               *)
(***************************************************************************)
RECURSIVE EvalLoop(_, _, _, _)
EvalLoop(i, num_record_samples, idxGiven, episodes) ==
    IF i >= num_record_samples THEN episodes
    ELSE IF idxGiven THEN episodes + 1
    ELSE EvalLoop(i + 1, num_record_samples, idxGiven, episodes + 1)

\* episodes: how many episodes ran; raised: rollout and info are read after
\* the loop and are unbound when the body never ran (UnboundLocalError).
_evaluate(num_record_samples, idxGiven) ==
    LET n == EvalLoop(0, num_record_samples, idxGiven, 0)
    IN [episodes |-> n, raised |-> n = 0]

(***************************************************************************)
(* get_agent_by_name: the agent class, or NotImplementedError.             *)
(***************************************************************************)
Algos == {"sac", "td3", "ppo"}

get_agent_by_name(algo) ==
    IF algo = "sac" THEN "SACAgent"
    ELSE IF algo = "td3" THEN "TD3Agent"
    ELSE "NotImplementedError"

(***************************************************************************)
(* The workers.  Without MPI there is one process, rank 0; rank 0 is the   *)
(* chef (config.is_chef).                                                  *)
(***************************************************************************)
Ranks == 1..NumWorkers
Workers == IF config.is_mpi THEN Ranks ELSE {1}
is_chef(w) == w = 1

\* util.mpi.mpi_sum: the sum of the values all workers handed in.
RECURSIVE SumOver(_, _)
SumOver(f, S) ==
    IF S = {} THEN 0
    ELSE LET x == CHOOSE y \in S : TRUE IN f[x] + SumOver(f, S \ {x})

mpi_sum(values) == SumOver(values, Workers)

Event(name, args) == [ev |-> name, args |-> args]
NoCalls == [random |-> 0, next |-> 0, store |-> 0, train |-> 0,
            eval |-> 0, save |-> 0]

\* The configurations explored: the extreme values of every field under "sac"; the other
\* algorithms end train() before the rest of the configuration is read.
Configs ==
    [algo : {"sac"}, is_mpi : BOOLEAN, is_train : {TRUE},
     start_steps : {0, MaxStartSteps},
     max_global_step : {MaxGlobalStep - 1, MaxGlobalStep},
     evaluate_interval : {1, MaxInterval}, ckpt_interval : {1, MaxInterval},
     num_record_samples : {0, MaxSamples}]
    \cup
    [algo : Algos \ {"sac"}, is_mpi : BOOLEAN, is_train : {TRUE},
     start_steps : {MaxStartSteps}, max_global_step : {MaxGlobalStep},
     evaluate_interval : {1}, ckpt_interval : {1}, num_record_samples : {1}]

\* log_dir when the Trainer is built: empty, or holding the checkpoint an
\* earlier run of the same program saved.
EarlierRuns(r) ==
    {NoFiles} \cup
    {_save_ckpt(NoFiles, [state |-> ui, buffer |-> ui], s, ui,
                IF r.env_step THEN s ELSE None) :
         <<s, ui>> \in {x \in (1..MaxGlobalStep) \X (1..MaxGlobalStep) :
                            x[2] \in {1, x[1]}}}

Idle == ck = None /\ ev = None /\ sw = None

Init ==
    /\ config \in Configs
    /\ runner \in [env_step : BOOLEAN]
    /\ disk \in EarlierRuns(runner)
    /\ pc = [w \in Ranks |-> IF w \in Workers THEN "init" ELSE "absent"]
    /\ err = [w \in Ranks |-> NoErr]
    /\ step = [w \in Ranks |-> 0]
    /\ update_iter = [w \in Ranks |-> 0]
    /\ env_step = [w \in Ranks |-> 0]
    /\ init_step = [w \in Ranks |-> 0]
    /\ step_per_batch = [w \in Ranks |-> 0]
    /\ env_step_per_batch = [w \in Ranks |-> None]
    /\ agent = [w \in Ranks |-> NewAgent]
    /\ sent = [w \in Ranks |-> None]
    /\ loaded = [w \in Ranks |-> <<None, None, None>>]
    /\ acLens = [w \in Ranks |-> <<>>]
    /\ trace = [w \in Ranks |-> <<>>]
    /\ calls = [w \in Ranks |-> NoCalls]
    /\ Idle

\* Trainer.__init__: the agent class is looked up by config.algo.
Construct(w) ==
    /\ pc[w] = "init"
    /\ IF get_agent_by_name(config.algo) = "NotImplementedError"
       THEN /\ pc' = [pc EXCEPT ![w] = "raised"]
            /\ err' = [err EXCEPT ![w] = "NotImplementedError"]
       ELSE /\ pc' = [pc EXCEPT ![w] = "train"]
            /\ err' = err
    /\ UNCHANGED <<config, runner, disk, step, update_iter, env_step, init_step,
                   step_per_batch, env_step_per_batch, agent, sent, loaded,
                   acLens, trace, calls, ck, ev, sw>>

\* A train() that also builds runners for "td3".
RunnersFor_td3(algo) ==
    IF algo \in {"sac", "td3"} THEN "runners" ELSE "NotImplementedError"

\* Which runners train() builds for config.algo.
RunnersFor(algo) == IF algo = "sac" THEN "runners" ELSE "NotImplementedError"

\* A warm-up that does not look at the loaded step.
AfterWarm_anyStep(st, ini) ==
    IF ini < config.start_steps THEN "warm" ELSE "loop"

\* Where train() is after the warm-up loop tests its condition.
AfterWarm(st, ini) ==
    IF st = 0 /\ ini < config.start_steps THEN "warm" ELSE "loop"

\* train() up to the warm-up: load the checkpoint, then pick the runners.
Begin(w) ==
    /\ pc[w] = "train"
    /\ LET r == _load_ckpt(disk, agent[w], config.is_train, None) IN
       /\ agent' = [agent EXCEPT ![w] = r.agent]
       /\ loaded' = [loaded EXCEPT ![w] = r.ret]
       /\ step' = [step EXCEPT ![w] = r.ret[1]]
       /\ update_iter' = [update_iter EXCEPT ![w] = r.ret[2]]
       /\ env_step' = [env_step EXCEPT ![w] = r.ret[3]]
       /\ IF r.err # NoErr
          THEN /\ pc' = [pc EXCEPT ![w] = "raised"]
               /\ err' = [err EXCEPT ![w] = r.err]
          ELSE IF RunnersFor(config.algo) = "NotImplementedError"
          THEN /\ pc' = [pc EXCEPT ![w] = "raised"]
               /\ err' = [err EXCEPT ![w] = "NotImplementedError"]
          ELSE /\ pc' = [pc EXCEPT ![w] = AfterWarm(r.ret[1], 0)]
               /\ err' = err
    /\ init_step' = [init_step EXCEPT ![w] = 0]
    /\ UNCHANGED <<config, runner, disk, step_per_batch, env_step_per_batch,
                   sent, acLens, trace, calls, ck, ev, sw>>

\* The tail of a warm-up iteration: init_step += step_per_batch, then
\* store_episode(rollout).
WarmTail(w, spb) ==
    /\ init_step' = [init_step EXCEPT ![w] = @ + spb]
    /\ agent' = [agent EXCEPT ![w] = store_episode(@)]
    /\ pc' = [pc EXCEPT ![w] = AfterWarm(step[w], init_step[w] + spb)]

\* A warm-up iteration up to its mpi_sum (or, without MPI, all of it):
\* next(random_runner).
WarmCollect(w) ==
    /\ pc[w] = "warm"
    /\ \E l \in 1..MaxRolloutLen :
         IF config.is_mpi
         THEN /\ sent' = [sent EXCEPT ![w] = l]
              /\ pc' = [pc EXCEPT ![w] = "warm_sum"]
              /\ calls' = [calls EXCEPT ![w].random = @ + 1]
              /\ UNCHANGED <<init_step, agent, step_per_batch>>
         ELSE /\ step_per_batch' = [step_per_batch EXCEPT ![w] = l]
              /\ WarmTail(w, l)
              /\ calls' = [calls EXCEPT ![w].random = @ + 1, ![w].store = @ + 1]
              /\ sent' = sent
    /\ UNCHANGED <<config, runner, disk, err, step, update_iter, env_step,
                   env_step_per_batch, loaded, acLens, trace, ck, ev, sw>>

\* The rest of a warm-up iteration once mpi_sum returned.
WarmStore(w) ==
    /\ pc[w] = "warm_upd"
    /\ WarmTail(w, step_per_batch[w])
    /\ calls' = [calls EXCEPT ![w].store = @ + 1]
    /\ UNCHANGED <<config, runner, disk, err, step, update_iter, env_step,
                   step_per_batch, env_step_per_batch, sent, loaded, acLens,
                   trace, ck, ev, sw>>

\* A step_per_batch that is never reduced over the workers.
StepPerBatch_local(own, values) == own

\* step_per_batch as train() computes it from the rollout of this worker
\* (own) and, under MPI, the values all workers handed to mpi_sum.
StepPerBatch(own, values) ==
    IF config.is_mpi THEN mpi_sum(values) ELSE own

\* The collective mpi_sum: it returns on every worker once all called it.
Allreduce ==
    /\ config.is_mpi
    /\ \A w \in Workers : pc[w] \in {"sum", "warm_sum"}
    /\ step_per_batch' = [w \in Ranks |-> IF w \in Workers
                                          THEN StepPerBatch(sent[w], sent)
                                          ELSE step_per_batch[w]]
    /\ sent' = [w \in Ranks |-> None]
    /\ pc' = [w \in Ranks |-> IF pc[w] = "sum" THEN "update"
                              ELSE IF pc[w] = "warm_sum" THEN "warm_upd"
                              ELSE pc[w]]
    /\ UNCHANGED <<config, runner, disk, err, step, update_iter, env_step,
                   init_step, env_step_per_batch, agent, loaded, acLens, trace,
                   calls, ck, ev, sw>>

\* A main-loop iteration up to its mpi_sum: the loop test, next(runner),
\* store_episode(rollout), and info["env_step"] when the runner reports it.
Collect(w) ==
    /\ pc[w] = "loop"
    /\ step[w] < config.max_global_step
    /\ \E l \in 1..MaxRolloutLen :
         /\ acLens' = [acLens EXCEPT ![w] = Append(@, l)]
         /\ env_step_per_batch' =
                [env_step_per_batch EXCEPT ![w] = IF runner.env_step THEN l ELSE None]
         /\ IF config.is_mpi
            THEN /\ sent' = [sent EXCEPT ![w] = l]
                 /\ pc' = [pc EXCEPT ![w] = "sum"]
                 /\ UNCHANGED step_per_batch
            ELSE /\ step_per_batch' = [step_per_batch EXCEPT ![w] = StepPerBatch(l, sent)]
                 /\ pc' = [pc EXCEPT ![w] = "update"]
                 /\ UNCHANGED sent
    /\ agent' = [agent EXCEPT ![w] = store_episode(@)]
    /\ trace' = [trace EXCEPT ![w] = <<Event("next", <<>>), Event("store", <<>>)>>]
    /\ calls' = [calls EXCEPT ![w].next = @ + 1, ![w].store = @ + 1]
    /\ UNCHANGED <<config, runner, disk, err, step, update_iter, env_step,
                   init_step, loaded, ck, ev, sw>>

\* The loop test failing: train() returns.
LoopExit(w) ==
    /\ pc[w] = "loop"
    /\ ~(step[w] < config.max_global_step)
    /\ pc' = [pc EXCEPT ![w] = "done"]
    /\ UNCHANGED <<config, runner, disk, err, step, update_iter, env_step,
                   init_step, step_per_batch, env_step_per_batch, agent, sent,
                   loaded, acLens, trace, calls, ck, ev, sw>>

\* The conditions of the chef's periodic work, on the incremented update_iter.
EvalDue(w, ui) == is_chef(w) /\ ui % config.evaluate_interval = 0
CkptDue(w, ui) == is_chef(w) /\ ui % config.ckpt_interval = 0

\* What _save_ckpt is called with: (step, update_iter, env_step).
SaveArgs(st, ui, es) == <<st, ui, es>>

\* An update_iter that is not incremented.
NextUpdateIter_same(ui) == ui

\* update_iter += 1
NextUpdateIter(ui) == ui + 1

\* The rest of a main-loop iteration: agent.train(), the counters, and on
\* the chef the evaluation and then the checkpoint.
Update(w) ==
    /\ pc[w] = "update"
    /\ LET ag == agent_train(agent[w])
           st == step[w] + step_per_batch[w]
           typeError == env_step_per_batch[w] # None /\ env_step[w] = None
           es == IF env_step_per_batch[w] # None
                 THEN env_step[w] + env_step_per_batch[w] ELSE None
           ui == NextUpdateIter(update_iter[w])
           r == _evaluate(config.num_record_samples, FALSE)
           evalRaised == EvalDue(w, ui) /\ r.raised
           saves == CkptDue(w, ui) /\ ~evalRaised
           a == SaveArgs(st, ui, es)
           t1 == Append(trace[w], Event("train", <<>>))
           t2 == IF EvalDue(w, ui)
                 THEN Append(t1, Event("eval", <<r.episodes>>)) ELSE t1
           t3 == IF saves THEN Append(t2, Event("save", a)) ELSE t2
       IN /\ agent' = [agent EXCEPT ![w] = ag]
          /\ step' = [step EXCEPT ![w] = st]
          /\ IF typeError
             THEN /\ pc' = [pc EXCEPT ![w] = "raised"]
                  /\ err' = [err EXCEPT ![w] = "TypeError"]
                  /\ trace' = [trace EXCEPT ![w] = t1]
                  /\ calls' = [calls EXCEPT ![w].train = @ + 1]
                  /\ UNCHANGED <<env_step, update_iter, disk>>
             ELSE /\ env_step' = [env_step EXCEPT ![w] = es]
                  /\ update_iter' = [update_iter EXCEPT ![w] = ui]
                  /\ trace' = [trace EXCEPT ![w] = t3]
                  /\ calls' = [calls EXCEPT
                                  ![w].train = @ + 1,
                                  ![w].eval = IF EvalDue(w, ui) THEN @ + 1 ELSE @,
                                  ![w].save = IF saves THEN @ + 1 ELSE @]
                  /\ disk' = IF saves
                             THEN _save_ckpt(disk, ag, a[1], a[2], a[3])
                             ELSE disk
                  /\ IF evalRaised
                     THEN /\ pc' = [pc EXCEPT ![w] = "raised"]
                          /\ err' = [err EXCEPT ![w] = "UnboundLocalError"]
                     ELSE /\ pc' = [pc EXCEPT ![w] = "loop"]
                          /\ err' = err
    /\ UNCHANGED <<config, runner, init_step, step_per_batch,
                   env_step_per_batch, sent, loaded, acLens, ck, ev, sw>>

Next ==
    \/ \E w \in Ranks : Construct(w)
    \/ \E w \in Ranks : Begin(w)
    \/ \E w \in Ranks : WarmCollect(w)
    \/ \E w \in Ranks : WarmStore(w)
    \/ Allreduce
    \/ \E w \in Ranks : Collect(w)
    \/ \E w \in Ranks : Update(w)
    \/ \E w \in Ranks : LoopExit(w)

Spec == Init /\ [][Next]_vars

(***************************************************************************)
(* Properties of train().                                                  *)
(***************************************************************************)
RECURSIVE SumSeq(_, _)
SumSeq(sq, n) == IF n = 0 THEN 0 ELSE SumSeq(sq, n - 1) + sq[n]

Count(t, name) == Cardinality({i \in 1..Len(t) : t[i].ev = name})
Pos(t, name) == CHOOSE i \in 1..Len(t) : t[i].ev = name

\* train() on worker w has its checkpoint loaded.
Started(w) == w \in Workers /\ loaded[w][1] # None
\* Main-loop iterations worker w has completed.
Iters(w) == update_iter[w] - loaded[w][2]
\* Worker w stands between two main-loop iterations, or after the last.
BetweenIters(w) == Started(w) /\ Iters(w) > 0 /\ pc[w] \in {"loop", "done", "raised"}
\* train() on worker w was ended by an exception raised inside the main loop.
RaisedInLoop(w) == pc[w] = "raised" /\ err[w] \in {"UnboundLocalError", "TypeError"}

\* C2: when the main loop of train() has ended on a worker, that worker's
\* step is at least config.max_global_step (the loop does not stop earlier).
C2_LoopEndsAtMaxGlobalStep ==
    \A w \in Ranks :
        (pc[w] = "done" \/ RaisedInLoop(w)) => step[w] >= config.max_global_step

\* C2, termination: train() only comes to rest with every worker returned
\* or raised (every step of the model advances a counter, so it comes to rest).
CanStep ==
    \/ \E w \in Workers :
          pc[w] \in {"init", "train", "warm", "warm_upd", "loop", "update"}
    \/ config.is_mpi /\ \A w \in Workers : pc[w] \in {"sum", "warm_sum"}

C2_RestsOnlyWhenEnded ==
    CanStep \/ \A w \in Workers : pc[w] \in {"done", "raised"}

\* C2, termination apart from the evaluation that raises.
C2_RestsWhenEvaluateReturns ==
    config.num_record_samples > 0 => C2_RestsOnlyWhenEnded

\* C2, apart from the evaluation that raises (num_record_samples = 0).
C2_WhenEvaluateReturns ==
    config.num_record_samples > 0 => C2_LoopEndsAtMaxGlobalStep

\* C3: under MPI every worker's step is the loaded step plus the lengths of
\* the rollouts of all workers over the iterations it completed; workers
\* that completed the same iterations hold the same step; and once a worker
\* has left the loop no worker runs a further iteration.
C3_StepAccounting ==
    config.is_mpi =>
        \A w \in Workers : Started(w) =>
            /\ \A v \in Workers : Len(acLens[v]) >= Iters(w)
            /\ step[w] = loaded[w][1]
                          + SumOver([v \in Workers |-> SumSeq(acLens[v], Iters(w))],
                                    Workers)
            /\ \A v \in Workers :
                   /\ Started(v) => loaded[v] = loaded[w]
                   /\ (Started(v) /\ update_iter[v] = update_iter[w])
                          => step[v] = step[w]
                   /\ (pc[w] = "done" /\ Started(v))
                          => /\ update_iter[v] <= update_iter[w]
                             /\ Len(acLens[v]) = Iters(w)
                             /\ update_iter[v] = update_iter[w]
                                    => step[v] >= config.max_global_step

C3_Witness ==
    /\ config.is_mpi
    /\ \A w \in Workers : pc[w] = "done" /\ Iters(w) >= 2
    /\ acLens[1] # acLens[2]

\* C4: at the end of every main-loop iteration, the iteration evaluated
\* exactly when the worker is the chef and update_iter is a multiple of
\* evaluate_interval, saved a checkpoint exactly when the worker is the chef
\* and update_iter is a multiple of ckpt_interval, saved it as
\* (step, update_iter, env_step), and evaluated before it saved; a worker
\* that is not the chef never evaluates or saves.
C4_PeriodicEvalAndCkpt ==
    \A w \in Workers :
        /\ ~is_chef(w) => calls[w].eval = 0 /\ calls[w].save = 0
        /\ BetweenIters(w) =>
             /\ Count(trace[w], "eval") =
                    (IF w = 1 /\ update_iter[w] % config.evaluate_interval = 0
                     THEN 1 ELSE 0)
             /\ Count(trace[w], "save") =
                    (IF w = 1 /\ update_iter[w] % config.ckpt_interval = 0
                     THEN 1 ELSE 0)
             /\ Count(trace[w], "save") = 1 =>
                    /\ trace[w][Pos(trace[w], "save")].args
                           = <<step[w], update_iter[w], env_step[w]>>
                    /\ CkptPath(step[w]) \in DOMAIN disk
                    /\ disk[CkptPath(step[w])].update_iter = update_iter[w]
                    /\ disk[CkptPath(step[w])].env_step = env_step[w]
                    /\ Count(trace[w], "eval") = 1 =>
                           Pos(trace[w], "eval") < Pos(trace[w], "save")

\* C4, apart from the evaluation that raises (num_record_samples = 0).
C4_WhenEvaluateReturns ==
    config.num_record_samples > 0 => C4_PeriodicEvalAndCkpt

\* C5: a train() that loaded no checkpoint (step 0) collects random rollouts,
\* storing each, until init_step >= start_steps and only then runs the main
\* loop; during the warm-up it never trains and step, update_iter and
\* env_step stay as loaded.  A train() that loaded step > 0 collects no
\* random rollout.
InWarmUp(w) == pc[w] \in {"warm", "warm_sum", "warm_upd"}
InMainLoop(w) == pc[w] \in {"loop", "sum", "update", "done"} \/ RaisedInLoop(w)

C5_WarmUp ==
    \A w \in Workers : Started(w) =>
        /\ loaded[w][1] > 0 => calls[w].random = 0 /\ ~InWarmUp(w)
        /\ InWarmUp(w) =>
             /\ calls[w].train = 0 /\ calls[w].next = 0
             /\ agent[w].state = 0
             /\ <<step[w], update_iter[w], env_step[w]>> = loaded[w]
             /\ loaded[w] = <<0, 0, 0>>
             /\ calls[w].store = (IF pc[w] = "warm" THEN calls[w].random
                                  ELSE calls[w].random - 1)
             /\ pc[w] = "warm" => init_step[w] < config.start_steps
        /\ (InMainLoop(w) /\ loaded[w][1] = 0) =>
             /\ init_step[w] >= config.start_steps
             /\ init_step[w] >= calls[w].random
             /\ calls[w].store = calls[w].random + calls[w].next
             /\ agent[w].buffer = calls[w].store
             /\ (calls[w].random > 0 /\ calls[w].next = 0)
                    => init_step[w] - step_per_batch[w] < config.start_steps

C5_Witness ==
    /\ loaded[1] = <<0, 0, 0>>
    /\ calls[1].random >= 2
    /\ calls[1].next >= 1
    /\ pc[1] = "done"

\* C9: get_agent_by_name raises NotImplementedError for every algo other
\* than "sac" and "td3", so no Trainer is built; and train() with an algo
\* other than "sac" raises NotImplementedError having collected no rollout,
\* stored no episode and trained nothing.
RaisedInInit(w) == pc[w] = "raised" /\ ~Started(w)

C9_UnsupportedAlgoRejected ==
    \A w \in Workers :
        /\ config.algo \notin {"sac", "td3"} =>
             /\ pc[w] \in {"init", "raised"}
             /\ pc[w] = "raised" => err[w] = "NotImplementedError"
        /\ config.algo \in {"sac", "td3"} => ~RaisedInInit(w)
        /\ config.algo # "sac" =>
             /\ pc[w] \in {"init", "train", "raised"}
             /\ pc[w] = "raised" => err[w] = "NotImplementedError"
             /\ calls[w] = NoCalls
             /\ acLens[w] = <<>>
        /\ config.algo = "sac" => err[w] # "NotImplementedError"

C9_Witness ==
    /\ config.algo = "td3"
    /\ pc[1] = "raised"
    /\ err[1] = "NotImplementedError"
    /\ loaded[1][1] > 0

\* C10: every main-loop iteration calls next(runner), store_episode and
\* agent.train() once each, in this order; update_iter has grown by one per
\* agent.train() call, step by the step_per_batch of every iteration, and
\* agent.train() is never called more often than rollouts were stored.
C10_RolloutThenTrain ==
    \A w \in Workers : Started(w) =>
        /\ Iters(w) = calls[w].train
        /\ calls[w].next = Len(acLens[w])
        /\ calls[w].train <= calls[w].next
        /\ calls[w].next <= calls[w].train + 1
        /\ calls[w].store = calls[w].next
                            + (IF InWarmUp(w) /\ pc[w] # "warm"
                               THEN calls[w].random - 1 ELSE calls[w].random)
        /\ pc[w] \in {"loop", "done"} => calls[w].next = calls[w].train
        /\ Len(trace[w]) >= 1 =>
             /\ Len(trace[w]) >= 2
             /\ trace[w][1].ev = "next" /\ trace[w][2].ev = "store"
             /\ Count(trace[w], "next") = 1 /\ Count(trace[w], "store") = 1
             /\ Count(trace[w], "train") = (IF pc[w] \in {"sum", "update"} THEN 0 ELSE 1)
             /\ Len(trace[w]) >= 3 => trace[w][3].ev = "train"
        /\ step[w] = loaded[w][1] +
             (IF config.is_mpi
              THEN SumOver([v \in Workers |-> SumSeq(acLens[v], Iters(w))], Workers)
              ELSE SumSeq(acLens[w], Iters(w)))

C10_Witness ==
    /\ pc[1] = "done"
    /\ calls[1].train >= 2
    /\ acLens[1][1] # acLens[1][2]

(***************************************************************************)
(* SpecCkpt: one Trainer saving and loading checkpoints in log_dir, with   *)
(* the agent training and storing episodes in between.                     *)
(***************************************************************************)
DefaultConfig ==
    [algo |-> "sac", is_mpi |-> FALSE, is_train |-> TRUE,
     start_steps |-> 0, max_global_step |-> MaxGlobalStep,
     evaluate_interval |-> 1, ckpt_interval |-> 1, num_record_samples |-> 1]

Parked ==
    /\ runner = [env_step |-> TRUE]
    /\ pc = [w \in Ranks |-> "absent"]
    /\ err = [w \in Ranks |-> NoErr]
    /\ step = [w \in Ranks |-> 0]
    /\ update_iter = [w \in Ranks |-> 0]
    /\ env_step = [w \in Ranks |-> 0]
    /\ init_step = [w \in Ranks |-> 0]
    /\ step_per_batch = [w \in Ranks |-> 0]
    /\ env_step_per_batch = [w \in Ranks |-> None]
    /\ sent = [w \in Ranks |-> None]
    /\ loaded = [w \in Ranks |-> <<None, None, None>>]
    /\ acLens = [w \in Ranks |-> <<>>]
    /\ trace = [w \in Ranks |-> <<>>]
    /\ calls = [w \in Ranks |-> NoCalls]

NoCall ==
    [op |-> "none", args |-> <<None, None, None>>, saved |-> NewAgent,
     after_save |-> FALSE, ret |-> <<None, None, None>>, err |-> NoErr,
     touched |-> FALSE, restored |-> FALSE, saves |-> 0, ops |-> 0]

InitCkpt ==
    /\ config \in {[DefaultConfig EXCEPT !.is_train = b] : b \in BOOLEAN}
    /\ disk = NoFiles
    /\ agent = [w \in Ranks |-> NewAgent]
    /\ ck = NoCall
    /\ ev = None /\ sw = None
    /\ Parked

\* agent.train()
CkTrain ==
    /\ ck.ops < MaxAgentOps
    /\ agent' = [agent EXCEPT ![1] = agent_train(@)]
    /\ ck' = [ck EXCEPT !.ops = @ + 1, !.touched = TRUE]
    /\ UNCHANGED <<trainVars, disk, ev, sw>>

\* agent.store_episode(rollout)
CkStore ==
    /\ ck.ops < MaxAgentOps
    /\ agent' = [agent EXCEPT ![1] = store_episode(@)]
    /\ ck' = [ck EXCEPT !.ops = @ + 1, !.touched = TRUE]
    /\ UNCHANGED <<trainVars, disk, ev, sw>>

\* self._save_ckpt(ckpt_num, update_iter, env_step)
CkSave ==
    /\ ck.saves < MaxSaves
    /\ \E ckpt_num \in 1..MaxCkptNum, a \in {<<0, None>>, <<1, 2>>} :
         /\ disk' = _save_ckpt(disk, agent[1], ckpt_num, a[1], a[2])
         /\ ck' = [ck EXCEPT !.op = "save", !.args = <<ckpt_num, a[1], a[2]>>,
                             !.saved = agent[1], !.after_save = FALSE,
                             !.ret = <<None, None, None>>, !.err = NoErr,
                             !.touched = FALSE, !.saves = @ + 1]
    /\ UNCHANGED <<trainVars, agent, ev, sw>>

\* self._load_ckpt()
CkLoad ==
    /\ LET r == _load_ckpt(disk, agent[1], config.is_train, None) IN
         /\ agent' = [agent EXCEPT ![1] = r.agent]
         /\ ck' = [ck EXCEPT !.op = "load", !.after_save = (ck.op = "save"),
                             !.ret = r.ret, !.err = r.err, !.touched = FALSE,
                             !.restored = ck.touched]
    /\ UNCHANGED <<trainVars, disk, ev, sw>>

NextCkpt == CkTrain \/ CkStore \/ CkSave \/ CkLoad

SpecCkpt == InitCkpt /\ [][NextCkpt]_vars

NoNewerCkpt(d, ckpt_num) ==
    \A p \in CkptFiles(d) : ParseInt(p.num) <= ckpt_num

\* C1: in training mode a _load_ckpt() that follows _save_ckpt(step,
\* update_iter, env_step), with no newer checkpoint in log_dir, returns
\* (step, update_iter, env_step) and leaves the agent with the state and the
\* replay buffer it had when it was saved.
C1_SaveLoadRoundTrip ==
    (ck.op = "load" /\ ~ck.touched /\ ck.after_save /\ config.is_train
        /\ NoNewerCkpt(disk, ck.args[1]))
    => /\ ck.err = NoErr
       /\ ck.ret = ck.args
       /\ agent[1] = ck.saved

\* A round trip that has something to restore: the agent was trained and
\* stored an episode before the save, and differed from it before the load.
C1_Witness ==
    /\ ck.op = "load" /\ ~ck.touched /\ ck.after_save /\ config.is_train
    /\ NoNewerCkpt(disk, ck.args[1])
    /\ ck.restored
    /\ ck.saves = 2
    /\ ck.saved = [state |-> 1, buffer |-> 0]
    /\ ck.ops = 2
    /\ ck.args = <<2, 0, None>>

(***************************************************************************)
(* SpecEval: the calls of Trainer._evaluate.  train() calls it with idx    *)
(* None; evaluate() calls it config.num_eval times with idx = i.  An       *)
(* episode's info is its episode_success flag.                             *)
(***************************************************************************)
Infos == {"s", "f"}

\* The call _evaluate(idx): results[k] is the info run_episode returns for the
\* k-th episode the call runs.
EvaluateCall(idx, results) ==
    LET r == _evaluate(config.num_record_samples, idx # None)
    IN [idx |-> idx, episodes |-> r.episodes, raised |-> r.raised,
        info |-> IF r.raised THEN "unbound" ELSE results[r.episodes]]

InitEval ==
    /\ config \in {[num_record_samples |-> n, num_eval |-> m, is_train |-> (c = "train")] :
                     n \in 0..MaxSamples, m \in 0..MaxEval, c \in {"train", "evaluate"}}
    /\ ev = [pc |-> IF config.is_train THEN "train" ELSE "evaluate", i |-> 0,
             last |-> [idx |-> None, episodes |-> 0, raised |-> FALSE, info |-> "unbound"],
             results |-> <<>>, called |-> 0, info_history |-> <<>>]
    /\ disk = NoFiles
    /\ agent = [w \in Ranks |-> NewAgent]
    /\ ck = None /\ sw = None
    /\ Parked

\* train(): rollout, info, vids = self._evaluate(step=step, record=config.record)
EvalFromTrain ==
    /\ ev.pc = "train"
    /\ \E results \in [1..config.num_record_samples -> Infos] :
         LET c == EvaluateCall(None, results) IN
         ev' = [ev EXCEPT !.last = c, !.results = results, !.called = @ + 1,
                          !.pc = IF c.raised THEN "raised" ELSE "train"]
    /\ ev.called < MaxEval
    /\ UNCHANGED <<trainVars, disk, agent, config, ck, sw>>

\* evaluate(): one pass of its loop, self._evaluate(step, record, idx=i), the
\* info appended to info_history; the loop ends after num_eval passes.
EvalFromEvaluate ==
    /\ ev.pc = "evaluate"
    /\ ev.i < config.num_eval
    /\ \E results \in [1..config.num_record_samples -> Infos] :
         LET c == EvaluateCall(ev.i, results) IN
         ev' = [ev EXCEPT !.last = c, !.results = results, !.called = @ + 1,
                          !.i = IF c.raised THEN @ ELSE @ + 1,
                          !.info_history = IF c.raised THEN @ ELSE Append(@, c.info),
                          !.pc = IF c.raised THEN "raised" ELSE "evaluate"]
    /\ UNCHANGED <<trainVars, disk, agent, config, ck, sw>>

EvaluateDone ==
    /\ ev.pc = "evaluate"
    /\ ~(ev.i < config.num_eval)
    /\ ev' = [ev EXCEPT !.pc = "done"]
    /\ UNCHANGED <<trainVars, disk, agent, config, ck, sw>>

NextEval == EvalFromTrain \/ EvalFromEvaluate \/ EvaluateDone

SpecEval == InitEval /\ [][NextEval]_vars

\* C6: every _evaluate call with idx given runs exactly one episode, every
\* call with idx None runs exactly num_record_samples episodes, and either
\* returns the info of the last episode it ran.
C6_EvaluateEpisodes ==
    ev.called > 0 =>
        /\ ~ev.last.raised
        /\ ev.last.episodes =
              (IF ev.last.idx # None THEN 1 ELSE config.num_record_samples)
        /\ ev.last.episodes > 0 /\ ev.last.info = ev.results[ev.last.episodes]

\* C6, for num_record_samples >= 1.
C6_WhenSamplesPositive ==
    config.num_record_samples >= 1 => C6_EvaluateEpisodes

(***************************************************************************)
(* SpecSawyer: config/sawyer.py and SawyerPickPlaceEnv.compute_reward.     *)
(* Positions lie on one axis in units of 0.01, rewards are in units of     *)
(* 0.001 (0.6 * 0.01 = 0.006).                                             *)
(***************************************************************************)
ReachMultiTenths == 6        \* reach_multi = 0.6
SparseThreshold == 15        \* 0.15

\* np.linalg.norm(cube_pos - gripper_site_pos)
Norm(a, b) == IF a >= b THEN a - b ELSE b - a

\* compute_reward: the local names bound before the branch on reward_type;
\* cube_pos and gripper_site_pos are bound inside the "dense" branch only.
BoundBeforeBranch == {"self", "action", "reward_type", "info", "reward"}

compute_reward(reward_type, sim) ==
    IF reward_type = "dense"
    THEN LET gripper_to_cube == Norm(sim.cube_pos, sim.gripper_site_pos)
             reward_reach == -(gripper_to_cube * ReachMultiTenths)
         IN [raised |-> NoErr, reward |-> 0 + reward_reach,
             info |-> [reward_reach |-> reward_reach]]
    ELSE IF {"cube_pos", "gripper_site_pos"} \subseteq BoundBeforeBranch
    THEN LET gripper_to_cube == Norm(sim.cube_pos, sim.gripper_site_pos)
             reward_reach == IF gripper_to_cube > SparseThreshold THEN -1000 ELSE 0
         IN [raised |-> NoErr, reward |-> 0 + reward_reach,
             info |-> [reward_reach |-> reward_reach]]
    ELSE [raised |-> "UnboundLocalError", reward |-> 0,
          info |-> [reward_reach |-> 0]]

\* The names config/sawyer.py defines or imports at module level.
ModuleNames == {"str2bool", "add_arguments", "get_default_config"}

\* What add_arguments registers: argument -> default.
add_arguments ==
    [reward_type |-> "dense", distance_threshold |-> 60, max_episode_steps |-> 250,
     screen_width |-> 500, screen_height |-> 500, camera_depth |-> FALSE,
     camera_name |-> "topview", frame_skip |-> 1, action_repeat |-> 5,
     ctrl_reward_coef |-> 0, kp |-> 40000, kd |-> 8000, ki |-> 0,
     frame_dt |-> 150, use_robot_indicator |-> TRUE,
     use_target_robot_indicator |-> TRUE, task_level |-> "easy",
     success_reward |-> 150000, range |-> 100, simple_planner_range |-> 50,
     timelimit |-> 1000, simple_planner_timelimit |-> 50,
     contact_threshold |-> -2, joint_margin |-> 1, step_size |-> 20]

\* No config object: the call did not return one.
NoConfig ==
    [reward_type |-> "unset", max_episode_steps |-> 0, action_repeat |-> 0,
     seed |-> 0, debug |-> FALSE]

\* get_default_config: it calls add_argument(parser), then adds seed and
\* debug and parses no arguments.
get_default_config ==
    IF "add_argument" \in ModuleNames
    THEN [raised |-> NoErr,
          config |-> [reward_type |-> add_arguments.reward_type,
                      max_episode_steps |-> add_arguments.max_episode_steps,
                      action_repeat |-> add_arguments.action_repeat,
                      seed |-> 1234, debug |-> FALSE]]
    ELSE [raised |-> "NameError", config |-> NoConfig]

NoSawyerCall ==
    [fn |-> "none", raised |-> NoErr, reward |-> 0, reward_reach |-> 0,
     config |-> NoConfig, gripper_to_cube |-> 0]

InitSawyer ==
    /\ config \in {[reward_type |-> t, is_train |-> TRUE] : t \in {"dense", "sparse"}}
    /\ sw = [sim |-> [cube_pos |-> 0, gripper_site_pos |-> 0], last |-> NoSawyerCall]
    /\ disk = NoFiles
    /\ agent = [w \in Ranks |-> NewAgent]
    /\ ck = None /\ ev = None
    /\ Parked

\* The simulator moves the cube and the gripper.
Simulate ==
    /\ \E dc \in {-1, 0, 1}, dg \in {-1, 0, 1} :
         /\ sw.sim.cube_pos + dc \in 0..MaxPos
         /\ sw.sim.gripper_site_pos + dg \in 0..MaxPos
         /\ sw' = [sw EXCEPT !.sim = [cube_pos |-> @.cube_pos + dc,
                                      gripper_site_pos |-> @.gripper_site_pos + dg]]
    /\ UNCHANGED <<trainVars, disk, agent, config, ck, ev>>

\* env.compute_reward(action)
ComputeReward ==
    /\ LET r == compute_reward(config.reward_type, sw.sim) IN
         sw' = [sw EXCEPT !.last =
                   [fn |-> "compute_reward", raised |-> r.raised, reward |-> r.reward,
                    reward_reach |-> r.info.reward_reach, config |-> NoConfig,
                    gripper_to_cube |-> Norm(sw.sim.cube_pos, sw.sim.gripper_site_pos)]]
    /\ UNCHANGED <<trainVars, disk, agent, config, ck, ev>>

\* config.sawyer.get_default_config()
GetDefaultConfig ==
    /\ LET r == get_default_config IN
         sw' = [sw EXCEPT !.last =
                   [fn |-> "get_default_config", raised |-> r.raised, reward |-> 0,
                    reward_reach |-> 0, config |-> r.config, gripper_to_cube |-> 0]]
    /\ UNCHANGED <<trainVars, disk, agent, config, ck, ev>>

NextSawyer == Simulate \/ ComputeReward \/ GetDefaultConfig

SpecSawyer == InitSawyer /\ [][NextSawyer]_vars

\* C7: for both reward types compute_reward returns (reward, info) with
\* info.reward_reach: for "dense" the reward is -0.6 times the gripper-to-cube
\* distance, for "sparse" it is -1 beyond 0.15 and 0 otherwise.
C7_ComputeReward ==
    sw.last.fn = "compute_reward" =>
        /\ sw.last.raised = NoErr
        /\ sw.last.reward = sw.last.reward_reach
        /\ sw.last.reward <= 0
        /\ config.reward_type = "dense" =>
               sw.last.reward = -(6 * sw.last.gripper_to_cube)
        /\ config.reward_type = "sparse" =>
               sw.last.reward = (IF sw.last.gripper_to_cube > 15 THEN -1000 ELSE 0)

\* C7, for reward_type "dense".
C7_Dense ==
    config.reward_type = "dense" => C7_ComputeReward

\* C8: get_default_config() does not raise and returns the registered
\* defaults with seed 1234 and debug False.
C8_DefaultConfig ==
    sw.last.fn = "get_default_config" =>
        /\ sw.last.raised = NoErr
        /\ sw.last.config = [reward_type |-> "dense", max_episode_steps |-> 250,
                             action_repeat |-> 5, seed |-> 1234, debug |-> FALSE]

(***************************************************************************)
(* SpecStep: SawyerPickPlaceEnv._step and _reset.  The arm is modelled     *)
(* with two joints and the gripper with one degree of freedom; joint       *)
(* positions, actions and _ac_scale are integers in one unit, times are in *)
(* units of 0.001.                                                         *)
(***************************************************************************)
\* None where the code holds an array or None.
NoArray == <<>>

\* self.init_qpos: one entry per arm joint.
init_qpos == <<0, 0>>

\* self.robot_dof and self.dof: the arm's joints, plus the gripper.
robot_dof == Len(init_qpos)
dof == robot_dof + 1

VecAdd(a, b) == [i \in 1..Len(a) |-> a[i] + b[i]]

\* np.clip(x, lo, hi), element by element
NpClip(x, lo, hi) ==
    [i \in 1..Len(x) |-> IF x[i] < lo THEN lo ELSE IF x[i] > hi THEN hi ELSE x[i]]

\* A rescaling that multiplies whoever calls.
rescaled_ac_multiply(action, is_planner, ac_scale) ==
    [i \in 1..robot_dof |-> action[i] * ac_scale]

\* _step, lines 125-128: the arm part of the action, clipped for the planner
\* and multiplied by _ac_scale otherwise.
rescaled_ac(action, is_planner, ac_scale) ==
    IF is_planner
    THEN NpClip(SubSeq(action, 1, robot_dof), -ac_scale, ac_scale)
    ELSE [i \in 1..robot_dof |-> SubSeq(action, 1, robot_dof)[i] * ac_scale]

\* self._do_simulation(converted_action): one step of the simulator, which
\* leaves the joints where the physics puts them.
_do_simulation(sim, qpos) ==
    [sim EXCEPT !.steps = @ + 1, !.qpos = qpos]

\* for _ in range(n_inner_loop): ... self._do_simulation(converted_action)
RECURSIVE InnerLoop(_, _, _)
InnerLoop(sim, n, qpos) ==
    IF n <= 0 THEN sim ELSE InnerLoop(_do_simulation(sim, qpos), n - 1, qpos)

\* int(self._frame_dt / self.dt), both positive
n_inner_loop(env) == env._frame_dt \div env.dt

\* SawyerPickPlaceEnv._step(action, is_planner): the exception it raises, and
\* the environment and the simulator afterwards.  qpos is where the physics
\* leaves the joints.
_step(env, sim, reward_type, action, is_planner, qpos) ==
    IF Len(action) # dof
    THEN [raised |-> "AssertionError", env |-> env, sim |-> sim]
    ELSE LET prev == IF ~is_planner \/ env._prev_state = NoArray
                     THEN sim.qpos ELSE env._prev_state
             i_term == IF env._i_term = None THEN 0 ELSE env._i_term
             desired_state == VecAdd(prev, rescaled_ac(action, is_planner, env._ac_scale))
             sim1 == InnerLoop(sim, n_inner_loop(env), qpos)
             r == compute_reward(reward_type, sim1)
         IN [raised |-> r.raised,
             env |-> [env EXCEPT !._prev_state = desired_state, !._i_term = i_term],
             sim |-> sim1]

\* The joint positions explored, and the actions: of the right length with
\* extreme entries, and one too short and one too long.
Qpos == {<<a, b>> : a \in {0, MaxJoint}, b \in {0, MaxJoint}}

Actions ==
    {<<MaxAc, -MaxAc, 1>>, <<-MaxAc, 1, -1>>, <<1, MaxAc, 1>>}
    \cup {<<1, 1>>, <<1, 1, 1, 1>>}

\* _ac_scale, dt and reward_type of the environments explored; frame_dt is
\* the registered default.
Envs ==
    {[_prev_state |-> NoArray, _i_term |-> None, _ac_scale |-> e[1],
      _frame_dt |-> add_arguments.frame_dt, dt |-> e[2], reward_type |-> e[3]] :
        e \in {<<1, 40, "dense">>, <<MaxAcScale, 40, "dense">>,
               <<MaxAcScale, 200, "dense">>, <<1, 150, "sparse">>}}

NoStepCall ==
    [fn |-> "none", action |-> <<>>, is_planner |-> FALSE, raised |-> NoErr,
     env |-> None, sim |-> None, calls |-> 0]

InitStep ==
    /\ \E e \in Envs :
         /\ config = [reward_type |-> e.reward_type, is_train |-> TRUE]
         /\ sw = [env |-> e,
                  sim |-> [qpos |-> init_qpos, cube_pos |-> 0,
                           gripper_site_pos |-> 5, steps |-> 0],
                  last |-> NoStepCall]
    /\ disk = NoFiles
    /\ agent = [w \in Ranks |-> NewAgent]
    /\ ck = None /\ ev = None
    /\ Parked

\* env._reset(): the joints are put near init_qpos.
Reset ==
    /\ \E q \in Qpos :
         sw' = [sw EXCEPT !.sim.qpos = q, !.last.fn = "_reset"]
    /\ UNCHANGED <<trainVars, disk, agent, config, ck, ev>>

\* env._step(action, is_planner)
StepCall ==
    /\ sw.last.calls < MaxStepCalls
    /\ \E action \in Actions, is_planner \in BOOLEAN, q \in Qpos :
         LET r == _step(sw.env, sw.sim, config.reward_type, action, is_planner, q) IN
         sw' = [env |-> r.env, sim |-> r.sim,
                last |-> [fn |-> "_step", action |-> action,
                          is_planner |-> is_planner, raised |-> r.raised,
                          env |-> sw.env, sim |-> sw.sim,
                          calls |-> sw.last.calls + 1]]
    /\ UNCHANGED <<trainVars, disk, agent, config, ck, ev>>

NextStep == Reset \/ StepCall

SpecStep == InitStep /\ [][NextStep]_vars

\* C11: a _step call with an action whose length differs from dof fails the
\* assertion and changes neither the environment nor the simulator.  Any
\* other call leaves _prev_state at the base state plus the rescaled arm
\* action and advances the simulation int(_frame_dt / dt) times, where a
\* non-planner call starts from the current joint positions and multiplies
\* the arm action by _ac_scale, and a planner call with _prev_state set
\* starts from _prev_state and clips the arm action to [-_ac_scale, _ac_scale].
C11_StepTargetTracking ==
    sw.last.fn = "_step" =>
      LET before == sw.last
          a == before.action
          s == before.env._ac_scale
      IN /\ Len(a) # dof =>
               /\ before.raised = "AssertionError"
               /\ sw.env = before.env
               /\ sw.sim = before.sim
         /\ Len(a) = dof =>
               /\ before.raised # "AssertionError"
               /\ sw.sim.steps - before.sim.steps
                      = before.env._frame_dt \div before.env.dt
               /\ ~before.is_planner =>
                      sw.env._prev_state =
                          [i \in 1..robot_dof |-> before.sim.qpos[i] + a[i] * s]
               /\ (before.is_planner /\ before.env._prev_state # NoArray) =>
                      sw.env._prev_state =
                          [i \in 1..robot_dof |->
                              before.env._prev_state[i]
                                + (IF a[i] < -s THEN -s ELSE IF a[i] > s THEN s ELSE a[i])]

\* A planner call whose stored _prev_state differs from the joint positions
\* and whose arm action is cut by the clipping, with the simulation advanced
\* three times (150 / 40, truncated).
C11_Witness ==
    /\ sw.last.fn = "_step"
    /\ Len(sw.last.action) = dof
    /\ sw.last.is_planner
    /\ sw.last.env._prev_state # NoArray
    /\ sw.last.env._prev_state # sw.last.sim.qpos
    /\ sw.last.action[1] = MaxAc /\ sw.last.env._ac_scale < MaxAc
    /\ sw.env._prev_state[1] = sw.last.env._prev_state[1] + sw.last.env._ac_scale
    /\ sw.sim.steps - sw.last.sim.steps = 3

(***************************************************************************)
(* SpecStop: _save_ckpt taken one file operation at a time (torch.save     *)
(* opens and writes the checkpoint file, gzip.open creates the replay      *)
(* file, pickle.dump and the end of the with block write and close it),    *)
(* with the process stopping at any point and a new Trainer then loading   *)
(* the latest checkpoint, as train() does.                                 *)
(***************************************************************************)
NoSave ==
    [pc |-> "idle", op |-> "none", args |-> <<None, None, None>>,
     err |-> NoErr, interrupted |-> FALSE, saves |-> 0, ops |-> 0]

InitStop ==
    /\ config = DefaultConfig
    /\ disk = NoFiles
    /\ agent = [w \in Ranks |-> NewAgent]
    /\ ck = NoSave
    /\ ev = None /\ sw = None
    /\ Parked

\* agent.train()
StopTrain ==
    /\ ck.pc = "idle" /\ ck.ops < MaxAgentOps
    /\ agent' = [agent EXCEPT ![1] = agent_train(@)]
    /\ ck' = [ck EXCEPT !.ops = @ + 1, !.op = "train"]
    /\ UNCHANGED <<trainVars, disk, ev, sw>>

\* agent.store_episode(rollout)
StopStore ==
    /\ ck.pc = "idle" /\ ck.ops < MaxAgentOps
    /\ agent' = [agent EXCEPT ![1] = store_episode(@)]
    /\ ck' = [ck EXCEPT !.ops = @ + 1, !.op = "store"]
    /\ UNCHANGED <<trainVars, disk, ev, sw>>

\* _save_ckpt is entered and torch.save opens the checkpoint file.
OpenCkptFile ==
    /\ ck.pc = "idle" /\ ck.saves < MaxSaves
    /\ \E ckpt_num \in 1..MaxCkptNum, a \in {<<0, None>>, <<1, 2>>} :
         /\ disk' = WriteFile(disk, CkptPath(ckpt_num), Incomplete)
         /\ ck' = [ck EXCEPT !.pc = "ckpt_open", !.op = "save",
                             !.args = <<ckpt_num, a[1], a[2]>>,
                             !.err = NoErr, !.saves = @ + 1]
    /\ UNCHANGED <<trainVars, agent, ev, sw>>

\* torch.save(state_dict, ckpt_path) has written the checkpoint file.
CloseCkptFile ==
    /\ ck.pc = "ckpt_open"
    /\ disk' = SaveCkptFile(disk, agent[1], ck.args[1], ck.args[2], ck.args[3])
    /\ ck' = [ck EXCEPT !.pc = "ckpt_written"]
    /\ UNCHANGED <<trainVars, agent, ev, sw>>

\* gzip.open(replay_path, "wb") creates the replay file, or empties it.
OpenReplayFile ==
    /\ ck.pc = "ckpt_written"
    /\ disk' = WriteFile(disk, ReplayPath(ck.args[1]), Incomplete)
    /\ ck' = [ck EXCEPT !.pc = "replay_open"]
    /\ UNCHANGED <<trainVars, agent, ev, sw>>

\* pickle.dump(replay_buffers, f) and the end of the with block; _save_ckpt
\* returns.
CloseReplayFile ==
    /\ ck.pc = "replay_open"
    /\ disk' = SaveReplayFile(disk, agent[1], ck.args[1])
    /\ ck' = [ck EXCEPT !.pc = "idle"]
    /\ UNCHANGED <<trainVars, agent, ev, sw>>

\* The process stops, inside a _save_ckpt call or between calls.
ProcessStop ==
    /\ ck.pc # "stopped"
    /\ ck' = [ck EXCEPT !.pc = "stopped",
                        !.interrupted = @ \/ ck.pc # "idle"]
    /\ UNCHANGED <<trainVars, disk, agent, ev, sw>>

\* A new Trainer is constructed and train() calls self._load_ckpt(); an
\* exception ends that process too.
Restart ==
    /\ ck.pc = "stopped"
    /\ LET r == _load_ckpt(disk, NewAgent, config.is_train, None) IN
         /\ agent' = [agent EXCEPT ![1] = r.agent]
         /\ ck' = [ck EXCEPT !.pc = IF r.err = NoErr THEN "idle" ELSE "stopped",
                             !.op = "load", !.err = r.err]
    /\ UNCHANGED <<trainVars, disk, ev, sw>>

NextStop ==
    \/ StopTrain \/ StopStore
    \/ OpenCkptFile \/ CloseCkptFile \/ OpenReplayFile \/ CloseReplayFile
    \/ ProcessStop \/ Restart

SpecStop == InitStop /\ [][NextStop]_vars

\* Every checkpoint file of d has a complete replay file with its number.
FilesPaired(d) ==
    \A p \in CkptFiles(d) :
        /\ ReplayPath(ParseInt(p.num)) \in DOMAIN d
        /\ d[ReplayPath(ParseInt(p.num))] # Incomplete

\* C12: whenever the process is between _save_ckpt calls or has stopped,
\* every ckpt_%08d.pt file in log_dir has a complete replay_%08d.pkl file
\* with the same number, and a _load_ckpt in training mode raises nothing.
C12_FilesStayPaired ==
    /\ ck.pc \in {"idle", "stopped"} => FilesPaired(disk)
    /\ ck.op = "load" => ck.err = NoErr

\* C12, as long as no process stopped inside a _save_ckpt call.
C12_WhenNoSaveInterrupted ==
    ~ck.interrupted => C12_FilesStayPaired

\* The four file operations together are _save_ckpt.
C12_StepsAreSaveCkpt ==
    (ck.pc = "idle" /\ ck.op = "save") =>
        disk = _save_ckpt(disk, agent[1], ck.args[1], ck.args[2], ck.args[3])

\* The process stopped between the two files of _save_ckpt(1, ...), and the
\* next train() failed to load the checkpoint it found.
C12_StoppedBetweenFiles ==
    /\ ck.pc = "stopped" /\ ck.op = "load" /\ ck.err = "FileNotFoundError"
    /\ CkptPath(1) \in DOMAIN disk
    /\ ReplayPath(1) \notin DOMAIN disk

====
